---- MODULE Spec2Model ----
(***************************************************************************)
(* Gradient based variational solvers of surpbayes:                        *)
(*   GDBayesSolver            (vanilla gradient descent)                   *)
(*   GradientBasedBayesSolver (momentum, sample reuse, bad step rollback)  *)
(* Source: src/src/surpbayes/bayes/gradient_based/gradient_based_solver.py *)
(*                                                                         *)
(* Floats are modelled as exact rationals <<num, den>> in lowest terms     *)
(* with den > 0; <<1,0>> is +inf, <<-1,0>> is -inf and <<0,0>> is nan,      *)
(* with the IEEE rules for sums, products and comparisons.                 *)
(* Python indices are 0-based; sequences here are 1-based, so Python index *)
(* i is index i+1 below.                                                   *)
(***************************************************************************)
EXTENDS Integers, Sequences, FiniteSets, TLC

\* ------------------------------------------------------------------ bounds
\* chain_length of the modelled runs
MaxChain == 3
\* largest batch size of a per_step schedule
MaxPerStep == 2
\* number of coordinates of a ProbaParam
NParam == 2
\* largest worker pool par_eval may use
MaxWorkers == 2
\* largest mean score the accumulator reports
MaxScore == 1

\* ------------------------------------------------------- float arithmetic
Abs(n) == IF n < 0 THEN -n ELSE n

Sgn(n) == IF n > 0 THEN 1 ELSE IF n < 0 THEN -1 ELSE 0

RECURSIVE GCD(_, _)
GCD(a, b) == IF b = 0 THEN a ELSE GCD(b, a % b)

Norm(n, d) ==
    IF d = 0 THEN <<Sgn(n), 0>>
    ELSE LET g == GCD(Abs(n), Abs(d))
             s == IF d < 0 THEN -1 ELSE 1
         IN  <<(s * n) \div g, (s * d) \div g>>

R(n) == <<n, 1>>

PosInf == <<1, 0>>

NegInf == <<-1, 0>>

NaN == <<0, 0>>

IsNaN(a) == a = NaN

IsFinite(a) == a[2] # 0

RNeg(a) == <<-a[1], a[2]>>

RAdd(a, b) ==
    IF a[2] = 0 /\ b[2] = 0
    THEN (IF a = b THEN a ELSE NaN)
    ELSE Norm(a[1] * b[2] + b[1] * a[2], a[2] * b[2])

RSub(a, b) == RAdd(a, RNeg(b))

RMul(a, b) == Norm(a[1] * b[1], a[2] * b[2])

RGt(a, b) ==
    IF IsNaN(a) \/ IsNaN(b) THEN FALSE
    ELSE IF a[2] = 0 /\ b[2] = 0 THEN a[1] > b[1]
    ELSE a[1] * b[2] > b[1] * a[2]

RLe(a, b) ==
    IF IsNaN(a) \/ IsNaN(b) THEN FALSE
    ELSE IF a[2] = 0 /\ b[2] = 0 THEN a[1] <= b[1]
    ELSE a[1] * b[2] <= b[1] * a[2]

RAbs(a) == <<Abs(a[1]), a[2]>>

\* vectors of NParam floats
Index == 1..NParam

VZero == [i \in Index |-> R(0)]

VAdd(u, w) == [i \in Index |-> RAdd(u[i], w[i])]

VScale(c, u) == [i \in Index |-> RMul(c, u[i])]

RECURSIVE RSum(_)
RSum(s) == IF s = <<>> THEN R(0) ELSE RAdd(s[1], RSum(Tail(s)))

RECURSIVE Sum(_)
Sum(s) == IF s = <<>> THEN 0 ELSE s[1] + Sum(Tail(s))

\* ------------------------------------------------------- program constants
\* temperature: float = 1.0
temperature == 1

\* eta: float = 0.05
eta_arg == <<1, 20>>

\* corr_eta: float = 0.5
corr_eta == <<1, 2>>

\* xtol: float = 10**-8, held as its inverse
xtol_inv == 100000000

\* parallel: bool = True
parallel == TRUE

\* prior_param / post_param: the run starts from the prior's parameter
prior_param == VZero

\* ------------------------------------------------- external collaborators
\* the loss function handed to the solver, evaluated on one sample point
Fun(x) == R((x - 5) * (x - 5))

\* a vectorized loss: the whole batch at once, index-aligned
FunVec(xs) == [i \in 1..Len(xs) |-> Fun(xs[i])]

\* proba(n): the batch of n points drawn at step c (fresh points each step)
Batches(c, n) == {[i \in 1..n |-> c * (MaxPerStep + 1) + i]}

\* proba.log_dens(sample), for the distribution of parameter p
LogDens(p, xs) ==
    [i \in 1..Len(xs) |-> RNeg(RMul(RSub(R(xs[i]), p[1]), RSub(R(xs[i]), p[1])))]

\* proba_map.log_dens_der(p)(samples): gradient of the log density in p
DerLog(p, x) == [j \in Index |-> RSub(R(x), p[j])]

\* scipy.stats.norm.ppf on the confidence levels used; nan outside [0,1]
NormPpf(p) ==
    IF IsNaN(p) \/ RGt(R(0), p) \/ RGt(p, R(1)) THEN NaN
    ELSE IF p = R(0) THEN NegInf
    ELSE IF p = R(1) THEN PosInf
    ELSE IF p = <<1, 2>> THEN R(0)
    ELSE IF p = <<99, 100>> THEN <<1163, 500>>
    ELSE R(1)

\* par_eval: the results of the workers, as <<index, value>> in completion
\* order, collected index-aligned with the batch xs
ParEvalCollect(xs, done) ==
    [i \in 1..Len(xs) |->
        (CHOOSE r \in {done[k] : k \in 1..Len(done)} : r[1] = i)[2]]

\* HistVILog -------------------------------------------------------------
LogRecord(par, score, kl, mean) ==
    [proba_par |-> par, score |-> score, KL |-> kl, mean |-> mean]

\* add1 / add: append one record
LogAdd1(log, rec) == Append(log, rec)

\* suppr(n) is defined only when n records exist
LogCanSuppr(log, n) == Len(log) >= n

LogSupprKept(log, n) == SubSeq(log, 1, Len(log) - n)

LogSupprRemoved(log, n) == SubSeq(log, Len(log) - n + 1, Len(log))

\* VI_scores(k): the k most recent scores (fewer when fewer exist)
LogScoresLast(log, k) ==
    LET from == IF Len(log) > k THEN Len(log) - k + 1 ELSE 1
    IN  [i \in 1..(Len(log) - from + 1) |-> log[from + i - 1].score]

\* accumulators ------------------------------------------------------------
NewAccu(cap) == [n_tot |-> cap, gens |-> <<>>]

RECURSIVE NFilled(_)
NFilled(gens) ==
    IF gens = <<>> THEN 0 ELSE Len(gens[1].vals) + NFilled(Tail(gens))

\* add fails when the batch does not fit in the remaining capacity
AccuCanAdd(a, gen) == NFilled(a.gens) + Len(gen.vals) <= a.n_tot

AccuAdd(a, gen) == [a EXCEPT !.gens = Append(a.gens, gen)]

ExtendMemory(a, extra) == [a EXCEPT !.n_tot = a.n_tot + extra]

\* suppr_gen(g): drop the g most recent generations (all when fewer exist)
SupprGen(a, g) ==
    [a EXCEPT !.gens = IF Len(a.gens) > g
                       THEN SubSeq(a.gens, 1, Len(a.gens) - g) ELSE <<>>]

\* one generation as stored by AccuSampleValDens / AccuSampleVal
Gen(sample, l_dens, vals) == [sample |-> sample, l_dens |-> l_dens, vals |-> vals]

GenNoDens(sample, vals) == [sample |-> sample, vals |-> vals]

\* outputs of the external estimators, drawn from small sets ---------------
\* accu.grad_score(...): (gradient, mean score, uncertainty on the mean)
GradScoreResults ==
    {[der_score |-> [i \in Index |-> R(1)], m_score |-> R(0), score_UQ |-> R(u)] :
        u \in {0, 1}}
    \cup
    {[der_score |-> [i \in Index |-> R(-i)], m_score |-> R(MaxScore), score_UQ |-> R(u)] :
        u \in {0, 1}}

\* grad_kl(post_param, n_grad_kl): (gradient of the KL, KL)
GradKLResults ==
    {[der_KL |-> VZero, kl |-> R(0)], [der_KL |-> [i \in Index |-> R(1)], kl |-> R(1)]}

\* ------------------------------------------------------ constructor inputs
\* index_train: None, or the first coordinate only (the others are frozen)
IndexTrainArgs == {[none |-> TRUE, idx |-> {}], [none |-> FALSE, idx |-> {1}]}

MomentumArgs == {R(0), <<1, 2>>}

\* refuse_conf: inside (0,1), and outside of it
RefuseConfArgs == {R(0), <<1, 2>>, <<99, 100>>, <<3, 2>>}

\* per_step: an int (the same batch size at every step) or a list
PerStepArgs ==
    {[t \in 1..MaxChain |-> n] : n \in {1, MaxPerStep}}
        \cup {[t \in 1..MaxChain |-> 1 + (t % MaxPerStep)]}

\* prev_eval: None, or a full accumulator holding one earlier generation
PrevGen == Gen(<<0>>, LogDens(prior_param, <<0>>), FunVec(<<0>>))

PrevEvalArgs ==
    {[none |-> TRUE, n_tot |-> 0, gens |-> <<>>],
     [none |-> FALSE, n_tot |-> 1, gens |-> <<PrevGen>>]}

\* ------------------------------------------------------------------ state
VARIABLES
    engine,          \* "GD" (GDBayesSolver) or "GB" (GradientBasedBayesSolver)
    index_train, index_no_train, momentum, refuse_conf, refuse_factor,
    per_step, vectorized, prev_eval,
    post_param, ini_post_param, v, eta, prev_score, count, converged,
    hist_log, bin_log, accu, stable_accu,
    n_warn,          \* ProbBadGrad warnings emitted so far
    err,             \* exception that left update, "none" if none did
    result,          \* outcome of process_result, "none" before the call
    pc,              \* position inside update
    sample, l_dens,  \* the batch of the step in progress
    running, done,   \* par_eval: indices being evaluated, results so far
    vals,            \* the evaluations handed back to update
    est              \* the estimates of the step in progress

cfg_vars == <<engine, index_train, index_no_train, momentum, refuse_conf,
              refuse_factor, per_step, vectorized, prev_eval, ini_post_param>>

run_vars == <<post_param, v, eta, prev_score, count, converged, hist_log,
              bin_log, accu, stable_accu, n_warn>>

eval_vars == <<sample, l_dens, running, done, vals, est>>

vars == <<cfg_vars, run_vars, eval_vars, err, result, pc>>

chain_length == Len(per_step)

NoEst == [der_score |-> VZero, m_score |-> R(0), score_UQ |-> R(0),
          der_KL |-> VZero, kl |-> R(0)]

\* ------------------------------------------------------------ construction
\* GDBayesSolver.__init__: the frozen indices are those not in index_train
IndexNoTrain(arg) == IF arg.none THEN {} ELSE Index \ arg.idx

IndexTrain(arg) == IF arg.none THEN Index ELSE arg.idx

\* mutant: the learning rate is handed to the parent without the momentum factor
EtaInit_NoMomentum(mom) == eta_arg

\* GradientBasedBayesSolver.__init__ hands eta * (1 - momentum) to the parent
EtaInit(mom) == RMul(eta_arg, RSub(R(1), mom))

\* mutant: a resumed accumulator keeps its old capacity
SetUpAccu_NoExtend(pe, sched) ==
    IF pe.none THEN NewAccu(Sum(sched)) ELSE [n_tot |-> pe.n_tot, gens |-> pe.gens]

\* GradientBasedBayesSolver.set_up_accu
SetUpAccu(pe, sched) ==
    IF pe.none THEN NewAccu(Sum(sched))
    ELSE ExtendMemory([n_tot |-> pe.n_tot, gens |-> pe.gens], Sum(sched))

SetUpStableAccu(sched) == NewAccu(Sum(sched))

\* mutant: the previous score starts finite
PrevScoreInit_Zero == R(0)

\* self.prev_score = np.inf
PrevScoreInit == PosInf

InitEval ==
    /\ sample = <<>>
    /\ l_dens = <<>>
    /\ running = {}
    /\ done = <<>>
    /\ vals = <<>>
    /\ est = NoEst

Init ==
    \E ita \in IndexTrainArgs, mom \in MomentumArgs, conf \in RefuseConfArgs,
       sched \in PerStepArgs, vec \in BOOLEAN, pe \in PrevEvalArgs :
        /\ engine = "GB"
        /\ index_train = IndexTrain(ita)
        /\ index_no_train = IndexNoTrain(ita)
        /\ momentum = mom
        /\ refuse_conf = conf
        /\ refuse_factor = NormPpf(conf)
        /\ per_step = sched
        /\ vectorized = vec
        /\ prev_eval = pe
        /\ post_param = prior_param
        /\ ini_post_param = prior_param
        /\ v = VZero
        /\ eta = EtaInit(mom)
        /\ prev_score = PrevScoreInit
        /\ count = 0
        /\ converged = FALSE
        /\ hist_log = <<>>
        /\ bin_log = <<>>
        /\ accu = SetUpAccu(pe, sched)
        /\ stable_accu = SetUpStableAccu(sched)
        /\ n_warn = 0
        /\ err = "none"
        /\ result = "none"
        /\ pc = "ready"
        /\ InitEval

\* ------------------------------------------------- sampling and evaluation
\* the scaffold calls update while count < chain_length
CanUpdate ==
    /\ pc = "ready"
    /\ err = "none"
    /\ result = "none"
    /\ count < chain_length

\* the pool of par_eval; a worker need not start, so the runs of a smaller
\* pool are among those of this one
PoolSize == IF parallel THEN MaxWorkers ELSE 1

\* gen_eval_samp up to the evaluation: draw the batch, take its log density,
\* then either evaluate it at once (vectorized) or hand it to par_eval
GenEvalSampBegin ==
    /\ engine = "GB"
    /\ CanUpdate
    /\ \E xs \in Batches(count, per_step[count + 1]) :
        /\ sample' = xs
        /\ l_dens' = LogDens(post_param, xs)
        /\ IF vectorized
           THEN vals' = FunVec(xs) /\ pc' = "evaluated"
           ELSE vals' = <<>> /\ pc' = "par_eval"
    /\ running' = {}
    /\ done' = <<>>
    /\ UNCHANGED <<cfg_vars, run_vars, est, err, result>>

Pending == {i \in 1..Len(sample) : i \notin running /\ \A k \in 1..Len(done) : done[k][1] # i}

\* par_eval: a free worker takes a sample that nobody has taken yet
WorkerStart ==
    /\ pc = "par_eval"
    /\ Cardinality(running) < PoolSize
    /\ \E i \in Pending : running' = running \cup {i}
    /\ UNCHANGED <<cfg_vars, run_vars, sample, l_dens, done, vals, est, err, result, pc>>

\* par_eval: a worker finishes its sample, in any order
WorkerFinish ==
    /\ pc = "par_eval"
    /\ \E i \in running :
        /\ running' = running \ {i}
        /\ done' = Append(done, <<i, Fun(sample[i])>>)
    /\ UNCHANGED <<cfg_vars, run_vars, sample, l_dens, vals, est, err, result, pc>>

\* par_eval returns once every sample of the batch has its value
ParEvalReturn ==
    /\ pc = "par_eval"
    /\ Len(done) = Len(sample)
    /\ vals' = ParEvalCollect(sample, done)
    /\ pc' = "evaluated"
    /\ UNCHANGED <<cfg_vars, run_vars, sample, l_dens, running, done, est, err, result>>

\* ------------------------------------------- GradientBasedBayesSolver.update
\* mutant: the log densities and the evaluations are returned swapped
GenEvalSamp_Swapped(xs, ld, vs) == Gen(xs, vs, ld)

\* what gen_eval_samp returns: (sample, l_dens, vals)
GenEvalSamp(xs, ld, vs) == Gen(xs, ld, vs)

\* score_VI = m_score + self.temperature * kl
ScoreVI(m, kl) == RAdd(m, RMul(R(temperature), kl))

\* mutant: the test is not strict
CheckBadGrad_NonStrict(score_VI, score_UQ, prev, factor) ==
    RLe(RMul(factor, score_UQ), RSub(score_VI, prev))

\* check_bad_grad: is_bad = score_VI - self.prev_score > self.refuse_factor * score_UQ
CheckBadGrad(score_VI, score_UQ, prev, factor) ==
    RGt(RSub(score_VI, prev), RMul(factor, score_UQ))

\* mutant: the learning rate is left as it was
RollbackEta_Kept(e) == e

\* self.eta = self.eta * self.corr_eta
RollbackEta(e) == RMul(e, corr_eta)

\* mutant: only the generation of the rejected step is removed
ModAccuBadStep_One(a) == SupprGen(a, 1)

\* mod_accu_bad_step: self.accu.suppr_gen(2)
ModAccuBadStep(a) == SupprGen(a, 2)

\* mutant: the removed record is dropped instead of being binned
MoveToBin_Dropped(bin, log) == bin

\* mutant: the oldest record is binned instead of the most recent one
MoveToBin_Oldest(bin, log) == Append(bin, log[1])

\* self.bin_log.add(*self.hist_log.suppr(1)): the bin log after the move
MoveToBin(bin, log) == bin \o LogSupprRemoved(log, 1)

\* the try / except IndexError of the rollback: the last surviving record,
\* or the initial parameter and an infinite score when none survives
RollbackParam(log, ini) == IF log # <<>> THEN log[Len(log)].proba_par ELSE ini

\* mutant: the previous score is reset instead of restored from the log
RollbackPrevScore_Stale(log) == PosInf

\* mutant: the fallback leaves a finite previous score
RollbackPrevScore_Zero(log) == IF log # <<>> THEN log[Len(log)].score ELSE R(0)

RollbackPrevScore(log) == IF log # <<>> THEN log[Len(log)].score ELSE PosInf

\* v_new = -self.eta * (der_score + self.temperature * der_KL)
VNew(e, der_score, der_KL) ==
    VScale(RNeg(e), VAdd(der_score, VScale(R(temperature), der_KL)))

\* mutant: the mask is not applied
MaskFrozen_NoMask(v_new, no_train) == v_new

\* v_new_flat[self.index_no_train] = 0.0
MaskFrozen(v_new, no_train) ==
    [i \in Index |-> IF i \in no_train THEN R(0) ELSE v_new[i]]

\* mutant: the previous velocity is carried over without the momentum factor
NextV_NoDecay(v_new, v_old, mom) == VAdd(v_new, v_old)

\* self.v = v_new + self.v * self.momentum
NextV(v_new, v_old, mom) == VAdd(v_new, VScale(mom, v_old))

\* check_convergence of the scaffold: the parameter no longer moves
BelowXtol(d) ==
    /\ IsFinite(d)
    /\ d[1] = 0 \/ xtol_inv <= (d[2] - 1) \div Abs(d[1])

CheckConvergence(old, new) ==
    \A i \in Index : BelowXtol(RSub(new[i], old[i]))

\* gen_sample's two add calls, then get_score_grad and grad_kl
GBEstimate ==
    /\ engine = "GB"
    /\ pc = "evaluated"
    /\ LET gen == GenEvalSamp(sample, l_dens, vals)
           plain == GenNoDens(gen.sample, gen.vals)
       IN  IF ~AccuCanAdd(accu, gen)
           THEN /\ err' = "CapacityError"
                /\ pc' = "failed"
                /\ UNCHANGED <<accu, stable_accu, est>>
           ELSE IF ~AccuCanAdd(stable_accu, plain)
           THEN /\ accu' = AccuAdd(accu, gen)
                /\ err' = "CapacityError"
                /\ pc' = "failed"
                /\ UNCHANGED <<stable_accu, est>>
           ELSE /\ accu' = AccuAdd(accu, gen)
                /\ stable_accu' = AccuAdd(stable_accu, plain)
                /\ \E gs \in GradScoreResults, gk \in GradKLResults :
                      est' = [der_score |-> gs.der_score, m_score |-> gs.m_score,
                              score_UQ |-> gs.score_UQ, der_KL |-> gk.der_KL,
                              kl |-> gk.kl]
                /\ pc' = "estimated"
                /\ err' = err
    /\ done' = <<>>
    /\ UNCHANGED <<cfg_vars, post_param, v, eta, prev_score, count, converged,
                   hist_log, bin_log, n_warn, sample, l_dens, running, vals,
                   result>>

\* mutant: the step counter is left where it was
StepCount_Stuck(c) == c

\* self.count += 1, the last statement of update, common to both branches
StepCount(c) == c + 1

\* the bad step branch of update
GBRollback(score_VI) ==
    /\ n_warn' = n_warn + 1
    /\ v' = VZero
    /\ eta' = RollbackEta(eta)
    /\ accu' = ModAccuBadStep(accu)
    /\ IF ~LogCanSuppr(hist_log, 1)
       THEN /\ err' = "IndexError"
            /\ pc' = "failed"
            /\ UNCHANGED <<hist_log, bin_log, post_param, prev_score, count>>
       ELSE /\ hist_log' = LogSupprKept(hist_log, 1)
            /\ bin_log' = MoveToBin(bin_log, hist_log)
            /\ post_param' = RollbackParam(hist_log', ini_post_param)
            /\ prev_score' = RollbackPrevScore(hist_log')
            /\ count' = StepCount(count)
            /\ pc' = "ready"
            /\ err' = err
    /\ UNCHANGED converged

\* the accepted branch of update
GBAccept(score_VI) ==
    LET v_new == MaskFrozen(VNew(eta, est.der_score, est.der_KL), index_no_train)
        v_next == NextV(v_new, v, momentum)
        new_post_param == VAdd(post_param, v_next)
    IN  /\ hist_log' = LogAdd1(hist_log,
                               LogRecord(post_param, score_VI, est.kl, est.m_score))
        /\ v' = v_next
        /\ converged' = CheckConvergence(post_param, new_post_param)
        /\ post_param' = new_post_param
        /\ prev_score' = score_VI
        /\ count' = StepCount(count)
        /\ pc' = "ready"
        /\ UNCHANGED <<eta, accu, bin_log, n_warn, err>>

\* update from the bad step test to the end of the step
GBDecide ==
    /\ engine = "GB"
    /\ pc = "estimated"
    /\ LET score_VI == ScoreVI(est.m_score, est.kl)
       IN  IF CheckBadGrad(score_VI, est.score_UQ, prev_score, refuse_factor)
           THEN GBRollback(score_VI)
           ELSE GBAccept(score_VI)
    /\ est' = NoEst
    /\ sample' = <<>>
    /\ l_dens' = <<>>
    /\ vals' = <<>>
    /\ UNCHANGED <<cfg_vars, stable_accu, running, done, result>>

\* process_result: opti_score is the last score of the primary log
ProcessResult ==
    /\ engine = "GB"
    /\ pc = "ready"
    /\ err = "none"
    /\ result = "none"
    /\ result' = IF LogScoresLast(hist_log, 1) = <<>> THEN "IndexError" ELSE "returned"
    /\ UNCHANGED <<cfg_vars, run_vars, eval_vars, err, pc>>

Next ==
    \/ GenEvalSampBegin
    \/ WorkerStart
    \/ WorkerFinish
    \/ ParEvalReturn
    \/ GBEstimate
    \/ GBDecide
    \/ ProcessResult

Spec == Init /\ [][Next]_vars

\* ------------------------------------------------------ GDBayesSolver.update
\* the scaffold's set_up_accu: a value-only accumulator sized for the run
SetUpAccuGD(pe, sched) ==
    IF pe.none THEN NewAccu(Sum(sched))
    ELSE ExtendMemory([n_tot |-> pe.n_tot,
                       gens |-> [k \in 1..Len(pe.gens) |->
                                    GenNoDens(pe.gens[k].sample, pe.gens[k].vals)]],
                      Sum(sched))

InitGD ==
    \E ita \in IndexTrainArgs, sched \in PerStepArgs, vec \in BOOLEAN,
       pe \in PrevEvalArgs :
        /\ engine = "GD"
        /\ index_train = IndexTrain(ita)
        /\ index_no_train = IndexNoTrain(ita)
        /\ momentum = R(0)
        /\ refuse_conf = NaN
        /\ refuse_factor = NaN
        /\ per_step = sched
        /\ vectorized = vec
        /\ prev_eval = pe
        /\ post_param = prior_param
        /\ ini_post_param = prior_param
        /\ v = VZero
        /\ eta = eta_arg
        /\ prev_score = PosInf
        /\ count = 0
        /\ converged = FALSE
        /\ hist_log = <<>>
        /\ bin_log = <<>>
        /\ accu = SetUpAccuGD(pe, sched)
        /\ stable_accu = NewAccu(0)
        /\ n_warn = 0
        /\ err = "none"
        /\ result = "none"
        /\ pc = "ready"
        /\ InitEval

\* samples = self.post(n_step), then vectorized or par_eval evaluation
GDSampleBegin ==
    /\ engine = "GD"
    /\ CanUpdate
    /\ \E xs \in Batches(count, per_step[count + 1]) :
        /\ sample' = xs
        /\ IF vectorized
           THEN vals' = FunVec(xs) /\ pc' = "evaluated"
           ELSE vals' = <<>> /\ pc' = "par_eval"
    /\ running' = {}
    /\ done' = <<>>
    /\ UNCHANGED <<cfg_vars, run_vars, l_dens, est, err, result>>

\* mval = np.mean(vals)
Mean(vs) == RMul(RSum(vs), <<1, Len(vs)>>)

\* grad_expct = np.tensordot((vals - mval), grads, (0,0)) / n_step
GradExpct(vs, grads, n_step) ==
    LET mval == Mean(vs)
    IN  [j \in Index |->
            RMul(RSum([i \in 1..Len(vs) |-> RMul(RSub(vs[i], mval), grads[i][j])]),
                 <<1, n_step>>)]

\* mutant: the step follows the gradient instead of descending it
GDStep_Ascent(e, grad_expct, grad_kl) ==
    VScale(e, VAdd(grad_expct, VScale(R(temperature), grad_kl)))

\* step = - self.eta * (grad_expct + self.temperature * grad_kl)
GDStep(e, grad_expct, grad_kl) ==
    VScale(RNeg(e), VAdd(grad_expct, VScale(R(temperature), grad_kl)))

\* score = mval + self.temperature * kl
\* self.hist_log.add1(proba_par=self.post_param, score=score, KL=kl, mean=mval)
GDRecord(par, mval, kl) == LogRecord(par, ScoreVI(mval, kl), kl, mval)

\* new_post_param = self.post_param + step
GDNewParam(par, e, grad_expct, grad_kl) == VAdd(par, GDStep(e, grad_expct, grad_kl))

\* update from self.accu.add to the end of the step
GDUpdate ==
    /\ engine = "GD"
    /\ pc = "evaluated"
    /\ LET gen == GenNoDens(sample, vals)
           n_step == per_step[count + 1]
           mval == Mean(vals)
           grads == [i \in 1..Len(sample) |-> DerLog(post_param, sample[i])]
           grad_expct == GradExpct(vals, grads, n_step)
       IN  IF ~AccuCanAdd(accu, gen)
           THEN /\ err' = "CapacityError"
                /\ pc' = "failed"
                /\ UNCHANGED <<accu, hist_log, post_param, converged, count>>
           ELSE /\ accu' = AccuAdd(accu, gen)
                /\ \E gk \in GradKLResults :
                    LET new_post_param ==
                            GDNewParam(post_param, eta, grad_expct, gk.der_KL)
                    IN  /\ hist_log' = LogAdd1(hist_log,
                                GDRecord(post_param, mval, gk.kl))
                        /\ converged' = CheckConvergence(post_param, new_post_param)
                        /\ post_param' = new_post_param
                /\ count' = count + 1
                /\ pc' = "ready"
                /\ err' = err
    /\ sample' = <<>>
    /\ vals' = <<>>
    /\ done' = <<>>
    /\ UNCHANGED <<cfg_vars, v, eta, prev_score, bin_log, stable_accu, n_warn,
                   l_dens, running, est, result>>

NextGD ==
    \/ GDSampleBegin
    \/ WorkerStart
    \/ WorkerFinish
    \/ ParEvalReturn
    \/ GDUpdate

SpecGD == InitGD /\ [][NextGD]_vars

\* ================================================================= claims
Last(log) == log[Len(log)]

\* the step in progress was found bad: the ProbBadGrad warning is emitted
BadStepTaken == pc = "estimated" /\ n_warn' = n_warn + 1

\* the step in progress was accepted
GoodStepTaken == pc = "estimated" /\ n_warn' = n_warn

\* C1: in GradientBasedBayesSolver the committed parameter keeps, at every
\* frozen index, the value of the run's initial parameter, whatever the
\* sequence of accepted and rejected updates.
C1_FrozenCoordinates ==
    engine = "GB" =>
        \A i \in Index \ index_train : post_param[i] = ini_post_param[i]

\* a run with a frozen index, an accepted and a rejected step behind it, whose
\* trainable coordinate has moved
C1_Witness ==
    /\ engine = "GB"
    /\ pc = "ready"
    /\ Index \ index_train # {}
    /\ hist_log # <<>>
    /\ bin_log # <<>>
    /\ \E i \in index_train : post_param[i] # ini_post_param[i]

\* C2: an update that detects a bad step ends with the parameter of the last
\* record left in the primary log (the initial parameter when none is left),
\* a zero momentum vector and a learning rate multiplied by corr_eta.
C2_RollbackConsistency ==
    [][BadStepTaken =>
        /\ pc' = "ready"
        /\ post_param' = (IF hist_log' # <<>> THEN Last(hist_log').proba_par
                          ELSE ini_post_param)
        /\ \A i \in Index : v'[i] = R(0)
        /\ eta' = RMul(eta, corr_eta)]_vars

\* two accepted steps then a rejected one: one record survives, the binned
\* record is the one of the second step
C2_Witness ==
    /\ engine = "GB"
    /\ pc = "ready"
    /\ count = 3
    /\ Len(hist_log) = 1
    /\ Len(bin_log) = 1
    /\ bin_log[1].proba_par # ini_post_param
    /\ post_param = hist_log[1].proba_par
    /\ eta = RMul(EtaInit(momentum), corr_eta)

\* C3: an accepted step appends exactly one record to the primary log and
\* leaves the bin log alone; a rejected step appends nothing to the primary
\* log, removes its most recent record and appends that record to the bin log.
C3_TrajectoryBookkeeping ==
    [][/\ GoodStepTaken =>
            /\ Len(hist_log') = Len(hist_log) + 1
            /\ SubSeq(hist_log', 1, Len(hist_log)) = hist_log
            /\ bin_log' = bin_log
       /\ BadStepTaken =>
            /\ hist_log # <<>>
            /\ hist_log' = SubSeq(hist_log, 1, Len(hist_log) - 1)
            /\ bin_log' = Append(bin_log, Last(hist_log))]_vars

\* a rejected step that followed two accepted ones: the bin log holds the
\* second record, the primary log the first
C3_Witness ==
    /\ engine = "GB"
    /\ pc = "ready"
    /\ Len(hist_log) = 1
    /\ Len(bin_log) = 1
    /\ hist_log[1].proba_par = ini_post_param
    /\ bin_log[1].proba_par # hist_log[1].proba_par

\* C4: neither accumulator ever holds more samples than its capacity and no
\* add of gen_sample fails; resumed from prev_eval, the capacity of accu is
\* the previous capacity plus sum(per_step).
C4_AccuCapacity ==
    engine = "GB" =>
        /\ NFilled(accu.gens) <= accu.n_tot
        /\ NFilled(stable_accu.gens) <= stable_accu.n_tot
        /\ err # "CapacityError"
        /\ ~prev_eval.none => accu.n_tot = prev_eval.n_tot + Sum(per_step)

\* a run resumed from a full accumulator, at the end of the schedule with no
\* rejected step: both accumulators are exactly full
C4_Witness ==
    /\ engine = "GB"
    /\ pc = "ready"
    /\ ~prev_eval.none
    /\ count = chain_length
    /\ NFilled(accu.gens) = accu.n_tot
    /\ NFilled(stable_accu.gens) = stable_accu.n_tot

\* C5: process_result returns a result in every reachable state, also when
\* the primary log is empty.
C5_ReportNeverUnderflows == result # "IndexError"

\* the bad step test of the step in progress, as the claims state it
ScoreNow == RAdd(est.m_score, RMul(R(temperature), est.kl))

MarginNow == RMul(refuse_factor, est.score_UQ)

BadNow == pc = "estimated" /\ RGt(RSub(ScoreNow, prev_score), MarginNow)

\* C6: an update that detects a bad step never finds the primary log empty,
\* raises nothing, emits one ProbBadGrad warning and leaves the solver ready
\* for the next update.
C6_BadStepNotFatal ==
    [][BadNow =>
        /\ hist_log # <<>>
        /\ err' = "none"
        /\ pc' = "ready"
        /\ n_warn' = n_warn + 1
        /\ count' = count + 1]_vars

\* accepted, rejected back to an empty primary log, then a further update ran
C6_Witness ==
    /\ engine = "GB"
    /\ pc = "ready"
    /\ err = "none"
    /\ count = 3
    /\ Len(bin_log) = 1
    /\ Len(hist_log) = 1
    /\ bin_log[1].proba_par = ini_post_param
    /\ hist_log[1].proba_par = ini_post_param
    /\ n_warn = 1

\* C7: no solver on which update runs exists with refuse_conf outside (0,1).
C7_RefuseConfFailsFast ==
    (engine = "GB" /\ count > 0) =>
        (RGt(refuse_conf, R(0)) /\ RGt(R(1), refuse_conf))

\* C8: in GDBayesSolver the committed parameter keeps, at every frozen index,
\* the value of the initial parameter.
C8_FrozenCoordinatesGD ==
    engine = "GD" =>
        \A i \in Index \ index_train : post_param[i] = ini_post_param[i]

\* C9: the evaluations handed to the accumulators and to the gradient
\* estimate are index-aligned with the batch whatever the completion order,
\* and nothing of the step (accumulator, estimates, log, parameter) moves
\* before every sample of the batch has its value.
C9_Aligned(g) ==
    /\ g.sample = sample
    /\ Len(g.vals) = per_step[count + 1]
    /\ \A i \in 1..Len(g.sample) : g.vals[i] = Fun(g.sample[i])

C9_AlignedBarrier ==
    [][/\ (pc' = "evaluated" /\ pc # "evaluated") =>
            /\ Len(vals') = per_step[count + 1]
            /\ \A i \in 1..Len(sample') : vals'[i] = Fun(sample'[i])
       /\ (/\ pc \in {"par_eval", "evaluated"}
           /\ \/ accu' # accu
              \/ stable_accu' # stable_accu
              \/ est' # est
              \/ hist_log' # hist_log
              \/ post_param' # post_param) =>
            /\ pc = "evaluated"
            /\ running = {}
            /\ Len(vals) = per_step[count + 1]
            /\ C9_Aligned(Last(accu'.gens))
            /\ engine = "GB" => C9_Aligned(Last(stable_accu'.gens))]_vars

\* par_eval has returned a batch whose second sample finished first
C9_Witness ==
    /\ pc = "evaluated"
    /\ ~vectorized
    /\ Len(done) = 2
    /\ done[1][1] = 2
    /\ vals = FunVec(sample)

\* C10: update takes the rollback branch exactly when
\* score_VI - prev_score > refuse_factor * score_UQ; a step whose score is
\* at most prev_score + refuse_factor * score_UQ is accepted.
C10_RollbackBranch ==
    /\ Len(bin_log') = Len(bin_log) + 1
    /\ Len(hist_log') = Len(hist_log) - 1
    /\ eta' = RMul(eta, corr_eta)

C10_AcceptBranch ==
    /\ Len(hist_log') = Len(hist_log) + 1
    /\ Last(hist_log').score = ScoreNow
    /\ bin_log' = bin_log
    /\ eta' = eta

C10_BadStepTest ==
    [][pc = "estimated" =>
        /\ C10_RollbackBranch <=> RGt(RSub(ScoreNow, prev_score), MarginNow)
        /\ RLe(ScoreNow, RAdd(prev_score, MarginNow)) => C10_AcceptBranch]_vars

\* with a zero margin (refuse_conf = 1/2), a second step whose score equals
\* the first one's was accepted
C10_Witness ==
    /\ engine = "GB"
    /\ pc = "ready"
    /\ refuse_conf = <<1, 2>>
    /\ count = 2
    /\ Len(hist_log) = 2
    /\ hist_log[2].score = hist_log[1].score
    /\ prev_score = hist_log[1].score

\* C11: in GradientBasedBayesSolver the first step of a run, and the step
\* that immediately follows a rollback that left the primary log empty, is
\* never rejected, whatever its score and uncertainty: the previous score is
\* +infinity in both situations.
C11_EmptyLogStepAccepted ==
    [][(engine = "GB" /\ pc = "estimated" /\ (count = 0 \/ hist_log = <<>>))
        => /\ prev_score = PosInf
           /\ ~RGt(RSub(ScoreNow, prev_score), MarginNow)
           /\ n_warn' = n_warn
           /\ err' = "none"
           /\ hist_log' = <<LogRecord(post_param, ScoreNow, est.kl, est.m_score)>>
      ]_vars

\* a step taken from an emptied log was accepted although it scored worse
\* than the step the rollback had removed, under a test that rejects any
\* finite increase
C11_Witness ==
    /\ engine = "GB"
    /\ pc = "ready"
    /\ refuse_factor = NegInf
    /\ count = 3
    /\ Len(bin_log) = 1
    /\ Len(hist_log) = 1
    /\ hist_log[1].proba_par = ini_post_param
    /\ RGt(hist_log[1].score, bin_log[1].score)

RECURSIVE RPow(_, _)
RPow(x, n) == IF n = 0 THEN R(1) ELSE RMul(x, RPow(x, n - 1))

\* C12: in GradientBasedBayesSolver, after any sequence of updates of which R
\* were rejected, the learning rate is eta * (1 - momentum) * corr_eta^R:
\* every rejected step multiplies it by corr_eta exactly once and no accepted
\* step changes it.
C12_LearningRate ==
    engine = "GB" =>
        eta = RMul(RMul(eta_arg, RSub(R(1), momentum)), RPow(corr_eta, n_warn))

C12_Witness ==
    /\ engine = "GB"
    /\ pc = "ready"
    /\ momentum = <<1, 2>>
    /\ count = 3
    /\ n_warn = 1
    /\ Len(hist_log) = 1
    /\ eta = <<1, 80>>

\* the gradient descent step of the vanilla engine written out per coordinate
C13_Descent(par, e, grad_loss, grad_kl) ==
    [i \in Index |->
        RSub(par[i], RMul(e, RAdd(grad_loss[i], RMul(R(temperature), grad_kl[i]))))]

\* C13: in GDBayesSolver every update appends exactly one record holding the
\* parameter that was current before the update, then commits
\* current - eta * (grad_loss + temperature * grad_kl) unconditionally; after
\* t updates the log holds exactly t records, record 0 holds the initial
\* parameter and record i the parameter committed by update i - 1.
C13_VanillaUpdate ==
    [][(engine = "GD" /\ pc = "evaluated")
        => LET grad_loss == GradExpct(vals, [i \in 1..Len(sample) |->
                                DerLog(post_param, sample[i])], Len(sample))
           IN  /\ err' = "none"
               /\ count' = count + 1
               /\ Len(hist_log') = count'
               /\ SubSeq(hist_log', 1, Len(hist_log)) = hist_log
               /\ Last(hist_log').proba_par = post_param
               /\ hist_log'[1].proba_par = ini_post_param
               /\ \E gk \in GradKLResults :
                    /\ Last(hist_log').KL = gk.kl
                    /\ post_param' =
                         C13_Descent(post_param, eta, grad_loss, gk.der_KL)
      ]_vars

C13_Witness ==
    /\ engine = "GD"
    /\ pc = "ready"
    /\ count = 2
    /\ Len(hist_log) = 2
    /\ hist_log[1].proba_par = ini_post_param
    /\ hist_log[2].proba_par # ini_post_param
    /\ post_param # hist_log[2].proba_par

\* C14: every update of GradientBasedBayesSolver increases the step counter
\* by exactly one, in the rejected branch as in the accepted one, and the
\* counter moves at no other time; updates being made only while the counter
\* is below chain_length, a run makes at most chain_length of them.
C14_CounterAdvances ==
    [][/\ (engine = "GB" /\ pc = "estimated")
            => (count' = count + 1 /\ err' = "none")
       /\ (engine = "GB" /\ count' # count) => pc = "estimated"
       /\ (engine = "GB" /\ pc = "ready" /\ pc' # "ready")
            => count < chain_length
       /\ count' <= chain_length
      ]_vars

\* a run that spent its whole chain, one of its steps rejected
C14_Witness ==
    /\ engine = "GB"
    /\ pc = "ready"
    /\ count = chain_length
    /\ n_warn >= 1
    /\ ~CanUpdate

\* C15: with momentum 0 and no frozen coordinate, an accepted step of
\* GradientBasedBayesSolver appends the record and commits the parameter that
\* a step of GDBayesSolver at the same learning rate would, from the same
\* current parameter, gradient estimate, mean loss, KL gradient and KL value.
C15_AcceptedStepIsVanilla ==
    [][(/\ engine = "GB" /\ pc = "estimated"
        /\ momentum = R(0) /\ index_no_train = {}
        /\ n_warn' = n_warn)
        => /\ hist_log' = LogAdd1(hist_log,
                                  GDRecord(post_param, est.m_score, est.kl))
           /\ post_param' =
                GDNewParam(post_param, eta, est.der_score, est.der_KL)
      ]_vars

\* two accepted steps in a row, the second taken with a non-zero velocity
\* left by the first, and a learning rate already corrected once or not
C15_Witness ==
    /\ engine = "GB"
    /\ pc = "ready"
    /\ momentum = R(0)
    /\ index_no_train = {}
    /\ Len(hist_log) = 2
    /\ v # VZero
    /\ hist_log[2].proba_par # hist_log[1].proba_par

\* C16: after every completed update of GradientBasedBayesSolver the previous
\* score is the score of the most recent record of the primary log when the
\* log is non-empty, and +infinity when it is empty.
C16_PrevScoreTracksLog ==
    (engine = "GB" /\ pc = "ready") =>
        IF hist_log = <<>>
        THEN prev_score = PosInf
        ELSE prev_score = hist_log[Len(hist_log)].score

\* a rollback restored the score of the record it uncovered, which differs
\* from the score of the record it removed
C16_Witness ==
    /\ engine = "GB"
    /\ pc = "ready"
    /\ count = 3
    /\ Len(bin_log) = 1
    /\ Len(hist_log) = 1
    /\ bin_log[1].proba_par # ini_post_param
    /\ prev_score = hist_log[1].score
    /\ prev_score # bin_log[1].score

\* C17: after every completed update of GradientBasedBayesSolver the
\* density-tracking accumulator holds the generations it held at construction
\* plus one per record of the primary log, so that a rollback never removes a
\* generation inherited from prev_eval.
C17_AccuGenerations ==
    (engine = "GB" /\ pc = "ready") =>
        LET inherited == IF prev_eval.none THEN <<>> ELSE prev_eval.gens
        IN  /\ Len(accu.gens) = Len(inherited) + Len(hist_log)
            /\ SubSeq(accu.gens, 1, Len(inherited)) = inherited

\* a run started from a previous evaluation was rolled back to an empty log
\* and still holds the inherited generation, and nothing else
C17_Witness ==
    /\ engine = "GB"
    /\ pc = "ready"
    /\ ~prev_eval.none
    /\ bin_log # <<>>
    /\ hist_log = <<>>
    /\ accu.gens = prev_eval.gens
    /\ accu.gens # <<>>

\* C18: after every completed update of GradientBasedBayesSolver the length
\* of the primary log plus twice the length of the bin log is the step
\* counter, the stable accumulator holds one generation per step taken, and
\* the rejected steps never outnumber the accepted ones.
C18_StepAccounting ==
    (engine = "GB" /\ pc = "ready") =>
        LET rejected == n_warn
            accepted == count - n_warn
        IN  /\ Len(hist_log) + 2 * Len(bin_log) = count
            /\ Len(bin_log) = rejected
            /\ Len(stable_accu.gens) = count
            /\ rejected <= accepted

C18_Witness ==
    /\ engine = "GB"
    /\ pc = "ready"
    /\ count = 3
    /\ Len(hist_log) = 1
    /\ Len(bin_log) = 1
    /\ Len(stable_accu.gens) = 3
    /\ 2 * n_warn = count - Len(hist_log)

\* both engines, for the claims that span them
InitAll == Init \/ InitGD

NextAll == Next \/ NextGD

SpecAll == InitAll /\ [][NextAll]_vars

====
